---- MODULE Spec2Model ----
(***************************************************************************)
(* Model of the model-selection strategies (my_model_selectors.py) and of  *)
(* the recognizer loop (my_recognizer.py).                                 *)
(*                                                                         *)
(* The HMM trainer (GaussianHMM.fit / .score) is an external collaborator  *)
(* that may fail: every invocation draws its outcome nondeterministically. *)
(* Observation data is identified by the indices of the word's sequences   *)
(* whose rows are concatenated, together with their row counts.            *)
(***************************************************************************)
EXTENDS Integers, Sequences, FiniteSets, TLC

(* ------------------------------ bounds --------------------------------- *)
MaxSeq == 3        \* most training sequences of the target word
MaxRows == 1       \* most feature rows in each training sequence
MaxN == 3          \* largest max_n_components a selector is constructed with
FeatureDim == 2    \* d = len(self.X[0])
MaxItems == 2      \* most items in the test set

(* ------------------------- program constants --------------------------- *)
MinNComponents == 2   \* default of min_n_components
NConstant == 3        \* default of n_constant
NSplits == 3          \* folds produced by KFold(shuffle=True, random_state=...)
FoldThreshold == 3    \* len(self.sequences) < 3 skips folding

\* log-likelihoods a successful model.score() may return
ScoreVals == {-9, -1}

Kinds == {"SelectorConstant", "SelectorBIC", "SelectorDIC", "SelectorCV"}

(* ------------------------------ values --------------------------------- *)
\* floats: a rational num/den, nan, or -inf
Real(n) == [kind |-> "real", num |-> n, den |-> 1]
Ratio(n, d) == [kind |-> "real", num |-> n, den |-> d]
NaN == [kind |-> "nan", num |-> 0, den |-> 1]
NegInf == [kind |-> "neginf", num |-> 0, den |-> 1]

\* a > b on floats: every comparison with nan is False
Gt(a, b) ==
    IF a.kind = "nan" \/ b.kind = "nan" THEN FALSE
    ELSE IF a.kind = "neginf" THEN FALSE
    ELSE IF b.kind = "neginf" THEN TRUE
    ELSE a.num * b.den > b.num * a.den

\* Python's None in a place where a fitted model is expected
None == [n |-> 0, X |-> << >>]
\* a fitted GaussianHMM: its number of states and the data it was fitted on
Hmm(n, data) == [n |-> n, X |-> data]

RECURSIVE SumSeq(_)
SumSeq(s) == IF s = << >> THEN 0 ELSE Head(s) + SumSeq(Tail(s))

\* faulty variant of Mean: the last fold's score alone
MeanLastFold(s) == IF s = << >> THEN NaN ELSE Ratio(s[Len(s)], 1)
\* np.mean(list): nan for the empty list
Mean(s) == IF s = << >> THEN NaN ELSE Ratio(SumSeq(s), Len(s))

\* np.log(N), in thousandths
LnTable == << 0, 693, 1099, 1386, 1609, 1792, 1946, 2079, 2197, 2303,
              2398, 2485, 2565, 2639, 2708, 2773 >>
LnMilli(N) == LnTable[N]

\* faulty variant of PyMaxFrom: keeps the smallest key
RECURSIVE PyMaxFromMin(_, _, _)
PyMaxFromMin(keys, best, i) ==
    IF i > Len(keys) THEN best
    ELSE PyMaxFromMin(keys, IF Gt(keys[best], keys[i]) THEN i ELSE best, i + 1)

\* faulty variant of PyMaxFrom: the last of several equal maxima
RECURSIVE PyMaxFromLast(_, _, _)
PyMaxFromLast(keys, best, i) ==
    IF i > Len(keys) THEN best
    ELSE PyMaxFromLast(keys, IF Gt(keys[best], keys[i]) THEN best ELSE i, i + 1)

\* max(iterable, key=...): the running best is replaced only by a strictly
\* greater key, so the first of several equal maxima is returned
RECURSIVE PyMaxFrom(_, _, _)
PyMaxFrom(keys, best, i) ==
    IF i > Len(keys) THEN best
    ELSE PyMaxFrom(keys, IF Gt(keys[i], keys[best]) THEN i ELSE best, i + 1)

\* index of the element max() returns for a non-empty sequence of keys
PyMax(keys) == PyMaxFrom(keys, 1, 2)

(* ------------------------- KFold / combine ----------------------------- *)

FoldSize(n, f) == (n \div NSplits) + (IF f <= n % NSplits THEN 1 ELSE 0)

RECURSIVE FoldStart(_, _)
FoldStart(n, f) == IF f = 1 THEN 0 ELSE FoldStart(n, f - 1) + FoldSize(n, f - 1)

\* the test indices of fold f: a slice of the shuffled index array
TestSet(perm, f) ==
    { perm[i] : i \in (FoldStart(Len(perm), f) + 1)..(FoldStart(Len(perm), f) + FoldSize(Len(perm), f)) }

RECURSIVE SortedSeq(_)
SortedSeq(S) ==
    IF S = {} THEN << >>
    ELSE LET m == CHOOSE x \in S : \A y \in S : x <= y
         IN << m >> \o SortedSeq(S \ {m})

\* the shuffles KFold can produce, one per fold assignment: split() yields sorted
\* index arrays, so the order inside one fold's slice makes no difference
Shuffles(n) ==
    { p \in [1..n -> 1..n] :
        /\ \A i, j \in 1..n : p[i] = p[j] => i = j
        /\ \A f \in 1..NSplits : \A i, j \in (FoldStart(n, f) + 1)..(FoldStart(n, f) + FoldSize(n, f)) :
              i < j => p[i] < p[j] }

cv_test_idx(perm, f) == SortedSeq(TestSet(perm, f))
cv_train_idx(perm, f) == SortedSeq((1..Len(perm)) \ TestSet(perm, f))

\* combine_sequences(idx, sequences) -> (X, lengths)
combine_sequences(idx, seqs) ==
    [X |-> idx, lengths |-> [i \in 1..Len(idx) |-> seqs[idx[i]]]]

FullIdx(seqs) == [i \in 1..Len(seqs) |-> i]

(* ------------------------------ state ---------------------------------- *)
VARIABLES
    kind,              \* class of the selector instance
    sequences,         \* self.sequences: row count of each training sequence
    X,                 \* self.X: indices of the sequences concatenated in it
    lengths,           \* self.lengths
    max_n_components,  \* self.max_n_components
    shuffle,           \* index order produced by the seeded KFold shuffle
    pc,                \* position of the running operation, "idle" between calls
    n_states,          \* loop variable of select()
    fold,              \* position in split_method.split(self.sequences)
    cv_scores,         \* local list of SelectorCV.select
    model,             \* local variable model
    n_state_scores,    \* local list of (score, model) pairs
    outcome,           \* how the last operation ended
    result,            \* what the last operation returned
    lastOp,            \* the last operation invoked on the instance
    calls,             \* trainer invocations of the current / last operation
    models,            \* recognize: the model table, in iteration order
    numItems,          \* recognize: len(test_set.get_all_sequences())
    word_id,           \* recognize: outer loop variable
    wordPos,           \* recognize: position in models.items()
    world_LogLvalues,  \* recognize: profile under construction
    probabilities,     \* recognize: list of profiles
    guesses,           \* recognize: list of guesses
    attempts,          \* recognize: every model.score attempt and how it ended
    rpc                \* recognize: position

selVars == << kind, sequences, X, lengths, max_n_components, shuffle, pc, n_states,
              fold, cv_scores, model, n_state_scores, outcome, result, lastOp,
              calls >>
recVars == << models, numItems, word_id, wordPos, world_LogLvalues, probabilities,
              guesses, attempts, rpc >>
vars == << selVars, recVars >>

\* faulty variant of FoldingSkipped: <= in place of <
FoldingSkippedLE(seqs) == Len(seqs) <= FoldThreshold
\* len(self.sequences) < 3
FoldingSkipped(seqs) == Len(seqs) < FoldThreshold

\* range(self.min_n_components, self.max_n_components + 1)
CandidateRange(lo, hi) == lo..hi

(* ------------------------------ trainer -------------------------------- *)
\* one recorded trainer invocation
FitCall(n, data, ok) == [op |-> "fit", n |-> n, X |-> data, ok |-> ok, val |-> 0]
ScoreCall(n, data, ok, v) == [op |-> "score", n |-> n, X |-> data, ok |-> ok, val |-> v]

\* base_model(num_states): the fitted model, or None when fit raised
base_model(num_states, data, fitOK) == IF fitOK THEN Hmm(num_states, data) ELSE None

RecIdle ==
    /\ models = << >>
    /\ numItems = 0
    /\ word_id = 0
    /\ wordPos = 0
    /\ world_LogLvalues = << >>
    /\ probabilities = << >>
    /\ guesses = << >>
    /\ attempts = {}
    /\ rpc = "off"

\* ModelSelector.__init__
Init ==
    /\ kind \in Kinds
    /\ \E k \in 1..MaxSeq, r \in 1..MaxRows : sequences = [i \in 1..k |-> r]
    /\ X = FullIdx(sequences)
    /\ lengths = sequences
    /\ max_n_components \in (MinNComponents - 1)..MaxN
    /\ shuffle \in IF kind = "SelectorCV" THEN Shuffles(Len(sequences)) ELSE {FullIdx(sequences)}
    /\ pc = "idle"
    /\ n_states = 0
    /\ fold = 0
    /\ cv_scores = << >>
    /\ model = None
    /\ n_state_scores = << >>
    /\ outcome = "unset"
    /\ result = None
    /\ lastOp = "none"
    /\ calls = << >>
    /\ RecIdle

\* what one fit-then-score attempt of the trainer can do
Outcomes ==
    {[fit |-> FALSE, score |-> FALSE, val |-> 0], [fit |-> TRUE, score |-> FALSE, val |-> 0]}
    \cup {[fit |-> TRUE, score |-> TRUE, val |-> v] : v \in ScoreVals}

\* faulty variant of BodyCompletes: a scoring failure goes unnoticed
BodyCompletesFitOnly(o) == o.fit
\* the try body runs to its end: no exception from model.score, which raises
\* when base_model returned None or when scoring fails
BodyCompletes(o) == o.fit /\ o.score

\* the trainer invocations of one attempt: model.score on None raises before
\* the trainer is reached
Attempt(n, fitData, scoreData, o) ==
    IF o.fit THEN << FitCall(n, fitData, TRUE), ScoreCall(n, scoreData, o.score, o.val) >>
    ELSE << FitCall(n, fitData, FALSE) >>

\* BIC = -2 * logL + p * np.log(N) with p = n^2 + 2*d*n - 1, in thousandths
BICScore(logL, n, N, d) ==
    Ratio(-2000 * logL + (n * n + 2 * d * n - 1) * LnMilli(N), 1000)

Keys(scores) == [i \in 1..Len(scores) |-> scores[i].score]

\* faulty variant of BestModel: min in place of max
BestModelMin(scores) ==
    IF Len(scores) = 0 THEN None ELSE scores[PyMaxFromMin(Keys(scores), 1, 2)].model
\* if len(n_state_scores)==0: return None
\* return max(n_state_scores, key=lambda x: x[0])[1]
BestModel(scores) ==
    IF Len(scores) = 0 THEN None ELSE scores[PyMax(Keys(scores))].model

Pair(s, m) == [score |-> s, model |-> m]

\* entering a public operation of the instance
Enter(op) ==
    /\ pc = "idle"
    /\ lastOp' = op

\* a caller invokes base_model(n) directly
BaseModelCall ==
    /\ Enter("base_model")
    /\ \E n \in MinNComponents..MaxN, fitOK \in BOOLEAN :
          /\ result' = base_model(n, X, fitOK)
          /\ calls' = << FitCall(n, X, fitOK) >>
    /\ outcome' = "returned"
    /\ UNCHANGED << kind, sequences, X, lengths, max_n_components, shuffle, pc, n_states,
                    fold, cv_scores, model, n_state_scores >>
    /\ UNCHANGED recVars

\* SelectorConstant.select
SelectConstant ==
    /\ kind = "SelectorConstant"
    /\ Enter("select")
    /\ \E fitOK \in BOOLEAN :
          /\ result' = base_model(NConstant, X, fitOK)
          /\ calls' = << FitCall(NConstant, X, fitOK) >>
    /\ outcome' = "returned"
    /\ UNCHANGED << kind, sequences, X, lengths, max_n_components, shuffle, pc, n_states,
                    fold, cv_scores, model, n_state_scores >>
    /\ UNCHANGED recVars

\* SelectorDIC.select: raise NotImplementedError
SelectDIC ==
    /\ kind = "SelectorDIC"
    /\ Enter("select")
    /\ outcome' = "NotImplementedError"
    /\ result' = None
    /\ calls' = << >>
    /\ UNCHANGED << kind, sequences, X, lengths, max_n_components, shuffle, pc, n_states,
                    fold, cv_scores, model, n_state_scores >>
    /\ UNCHANGED recVars

\* SelectorBIC.select, up to the loop
BICStart ==
    /\ kind = "SelectorBIC"
    /\ Enter("select")
    /\ pc' = "bic"
    /\ n_state_scores' = << >>
    /\ n_states' = MinNComponents
    /\ model' = None
    /\ calls' = << >>
    /\ outcome' = "running"
    /\ result' = None
    /\ UNCHANGED << kind, sequences, X, lengths, max_n_components, shuffle, fold, cv_scores >>
    /\ UNCHANGED recVars

\* one iteration of the loop of SelectorBIC.select
BICIterate ==
    /\ pc = "bic"
    /\ n_states \in CandidateRange(MinNComponents, max_n_components)
    /\ \E o \in Outcomes :
          LET m == base_model(n_states, X, o.fit)
              BIC == BICScore(o.val, n_states, SumSeq(lengths), FeatureDim)
          IN /\ model' = m
             /\ calls' = calls \o Attempt(n_states, X, X, o)
             /\ n_state_scores' = IF BodyCompletes(o)
                                  THEN Append(n_state_scores, Pair(BIC, m))
                                  ELSE n_state_scores
    /\ n_states' = n_states + 1
    /\ UNCHANGED << kind, sequences, X, lengths, max_n_components, shuffle, pc, fold,
                    cv_scores, outcome, result, lastOp >>
    /\ UNCHANGED recVars

\* the end of SelectorBIC.select; its locals go out of scope
BICReturn ==
    /\ pc = "bic"
    /\ n_states \notin CandidateRange(MinNComponents, max_n_components)
    /\ result' = BestModel(n_state_scores)
    /\ outcome' = "returned"
    /\ pc' = "idle"
    /\ n_states' = 0
    /\ model' = None
    /\ n_state_scores' = << >>
    /\ UNCHANGED << kind, sequences, X, lengths, max_n_components, shuffle, fold,
                    cv_scores, lastOp, calls >>
    /\ UNCHANGED recVars

\* SelectorCV.select, up to the loop
CVStart ==
    /\ kind = "SelectorCV"
    /\ Enter("select")
    /\ pc' = "cv"
    /\ n_state_scores' = << >>
    /\ n_states' = MinNComponents
    /\ cv_scores' = << >>
    /\ fold' = 0
    /\ model' = None
    /\ calls' = << >>
    /\ outcome' = "running"
    /\ result' = None
    /\ UNCHANGED << kind, sequences, X, lengths, max_n_components, shuffle >>
    /\ UNCHANGED recVars

\* one iteration of the loop of SelectorCV.select when folding is skipped:
\* the (score, model) pair is appended, and so is (np.mean([]), model)
CVIterateFull ==
    /\ pc = "cv"
    /\ n_states \in CandidateRange(MinNComponents, max_n_components)
    /\ FoldingSkipped(sequences)
    /\ \E o \in Outcomes :
          LET m == base_model(n_states, X, o.fit)
          IN /\ model' = m
             /\ calls' = calls \o Attempt(n_states, X, X, o)
             /\ n_state_scores' =
                   IF BodyCompletes(o)
                   THEN n_state_scores \o << Pair(Real(o.val), m), Pair(Mean(cv_scores), m) >>
                   ELSE n_state_scores
    /\ n_states' = n_states + 1
    /\ UNCHANGED << kind, sequences, X, lengths, max_n_components, shuffle, pc, fold,
                    cv_scores, outcome, result, lastOp >>
    /\ UNCHANGED recVars

\* one fold of one iteration of the loop of SelectorCV.select.  fold counts the
\* folds of the current n_states already scored.  A failure leaves the loop body
\* through the except clause; the last fold appends the mean.  cv_scores is
\* re-bound to [] when the next iteration begins.
CVFold ==
    /\ pc = "cv"
    /\ n_states \in CandidateRange(MinNComponents, max_n_components)
    /\ ~FoldingSkipped(sequences)
    /\ IF Len(sequences) < NSplits
       THEN \* split() raises ValueError: more splits than samples
            /\ n_states' = n_states + 1
            /\ UNCHANGED << X, lengths, fold, cv_scores, model, n_state_scores, calls >>
       ELSE \E o \in Outcomes :
            LET train == combine_sequences(cv_train_idx(shuffle, fold + 1), sequences)
                test == combine_sequences(cv_test_idx(shuffle, fold + 1), sequences)
                m == base_model(n_states, train.X, o.fit)
                scores == Append(cv_scores, o.val)
                good == BodyCompletes(o)
                last == fold + 1 = NSplits
            IN /\ X' = train.X
               /\ lengths' = train.lengths
               /\ model' = m
               /\ calls' = calls \o Attempt(n_states, train.X, test.X, o)
               /\ cv_scores' = IF good /\ ~last THEN scores ELSE << >>
               /\ fold' = IF good /\ ~last THEN fold + 1 ELSE 0
               /\ n_states' = IF good /\ ~last THEN n_states ELSE n_states + 1
               /\ n_state_scores' = IF good /\ last
                                    THEN Append(n_state_scores, Pair(Mean(scores), m))
                                    ELSE n_state_scores
    /\ UNCHANGED << kind, sequences, max_n_components, shuffle, pc, outcome, result,
                    lastOp >>
    /\ UNCHANGED recVars

\* the end of SelectorCV.select; its locals go out of scope
CVReturn ==
    /\ pc = "cv"
    /\ n_states \notin CandidateRange(MinNComponents, max_n_components)
    /\ result' = BestModel(n_state_scores)
    /\ outcome' = "returned"
    /\ pc' = "idle"
    /\ n_states' = 0
    /\ model' = None
    /\ n_state_scores' = << >>
    /\ UNCHANGED << kind, sequences, X, lengths, max_n_components, shuffle, fold,
                    cv_scores, lastOp, calls >>
    /\ UNCHANGED recVars

(* ----------------------------- recognizer ------------------------------ *)
Words == {"A", "B", "C"}

\* the model tables: distinct words in some iteration order, each with a fitted
\* model or with None (a word whose selection returned None)
Tables ==
    UNION { { t \in [1..k -> [word : Words, model : {None, Hmm(MinNComponents, << 1 >>)}]] :
                \A i, j \in 1..k : t[i].word = t[j].word => i = j } : k \in 0..Cardinality(Words) }

\* model.score(sequence, lengths) on a fitted model: a value, or an exception
RecOutcomes == {[ok |-> FALSE, val |-> 0]} \cup {[ok |-> TRUE, val |-> v] : v \in ScoreVals}

DictKeys(d) == { d[i].word : i \in 1..Len(d) }
DictGet(d, w) == (CHOOSE e \in { d[i] : i \in 1..Len(d) } : e.word = w).val
\* d[w] = v on a dict that keeps insertion order
DictSet(d, w, v) ==
    IF w \in DictKeys(d)
    THEN [i \in 1..Len(d) |-> IF d[i].word = w THEN [word |-> w, val |-> v] ELSE d[i]]
    ELSE Append(d, [word |-> w, val |-> v])

\* faulty variant of RecordedValue: 0 in place of -inf
RecordedValueZero(o) == IF o.ok THEN Real(o.val) ELSE Real(0)
\* try: model.score(...)  except: float("-Infinity")
RecordedValue(o) == IF o.ok THEN Real(o.val) ELSE NegInf

\* faulty variant of GuessOf: ties go to the last word
GuessOfLast(d) == d[PyMaxFromLast([i \in 1..Len(d) |-> d[i].val], 1, 2)].word
\* max(world_LogLvalues, key=lambda x: world_LogLvalues[x])
GuessOf(d) == d[PyMax([i \in 1..Len(d) |-> d[i].val])].word

SelOff ==
    /\ kind = "SelectorConstant"
    /\ sequences = << 1 >>
    /\ X = << 1 >>
    /\ lengths = << 1 >>
    /\ max_n_components = MaxN
    /\ shuffle = << 1 >>
    /\ pc = "off"
    /\ n_states = 0
    /\ fold = 0
    /\ cv_scores = << >>
    /\ model = None
    /\ n_state_scores = << >>
    /\ outcome = "unset"
    /\ result = None
    /\ lastOp = "none"
    /\ calls = << >>

\* recognize(models, test_set) up to the outer loop
InitRec ==
    /\ SelOff
    /\ models \in Tables
    /\ numItems \in 0..MaxItems
    /\ word_id = 0
    /\ wordPos = 0
    /\ world_LogLvalues = << >>
    /\ probabilities = << >>
    /\ guesses = << >>
    /\ attempts = {}
    /\ rpc = "items"

\* one iteration of the inner loop: score the item against one word's model.
\* None has no score attribute, so the call raises and is caught.
ScoreWord ==
    /\ rpc = "items"
    /\ word_id < numItems
    /\ wordPos < Len(models)
    /\ LET entry == models[wordPos + 1]
       IN \E o \in RecOutcomes :
             /\ entry.model = None => ~o.ok
             /\ world_LogLvalues' = DictSet(world_LogLvalues, entry.word, RecordedValue(o))
             /\ attempts' = attempts \cup
                   {[item |-> word_id, word |-> entry.word, ok |-> o.ok, val |-> o.val]}
    /\ wordPos' = wordPos + 1
    /\ UNCHANGED << models, numItems, word_id, probabilities, guesses, rpc >>
    /\ UNCHANGED selVars

\* the end of one iteration of the outer loop; max() of an empty dict raises
\* ValueError, which leaves recognize
FinishItem ==
    /\ rpc = "items"
    /\ word_id < numItems
    /\ wordPos = Len(models)
    /\ IF Len(world_LogLvalues) = 0
       THEN /\ probabilities' = Append(probabilities, world_LogLvalues)
            /\ rpc' = "ValueError"
            /\ UNCHANGED << guesses, word_id, wordPos, world_LogLvalues >>
       ELSE /\ probabilities' = Append(probabilities, world_LogLvalues)
            /\ guesses' = Append(guesses, GuessOf(world_LogLvalues))
            /\ word_id' = word_id + 1
            /\ wordPos' = 0
            /\ world_LogLvalues' = << >>
            /\ UNCHANGED rpc
    /\ UNCHANGED << models, numItems, attempts >>
    /\ UNCHANGED selVars

\* return (probabilities, guesses)
RecReturn ==
    /\ rpc = "items"
    /\ word_id = numItems
    /\ rpc' = "returned"
    /\ UNCHANGED << models, numItems, word_id, wordPos, world_LogLvalues, probabilities,
                    guesses, attempts >>
    /\ UNCHANGED selVars

NextRec ==
    \/ ScoreWord
    \/ FinishItem
    \/ RecReturn

SpecRec == InitRec /\ [][NextRec]_vars

Next ==
    \/ BaseModelCall
    \/ SelectConstant
    \/ SelectDIC
    \/ BICStart
    \/ BICIterate
    \/ BICReturn
    \/ CVStart
    \/ CVIterateFull
    \/ CVFold
    \/ CVReturn

Spec == Init /\ [][Next]_vars
(* =============================== claims ================================ *)
TableKeys == { models[i].word : i \in 1..Len(models) }
PosInTable(w) == CHOOSE k \in 1..Len(models) : models[k].word = w

\* C1: every completed profile has exactly the model table's keys; a word whose
\* scoring raised is recorded as -inf and a word whose scoring succeeded is
\* recorded with the value its model returned.
C1_ProfileComplete ==
    \A i \in 1..Len(probabilities) :
        /\ DictKeys(probabilities[i]) = TableKeys
        /\ Len(probabilities[i]) = Len(models)
        /\ \A a \in attempts :
              a.item = i - 1 =>
                 /\ a.ok => DictGet(probabilities[i], a.word) = Real(a.val)
                 /\ ~a.ok => DictGet(probabilities[i], a.word) = NegInf

C1_Witness ==
    /\ rpc = "returned"
    /\ Len(probabilities) = numItems
    /\ \E a, b \in attempts : a.item = b.item /\ a.ok /\ ~b.ok

\* C2: every guess is a word of maximal recorded value in its item's profile,
\* and every word before it in the table's iteration order has a strictly
\* smaller value (all values -inf included).
C2_GuessIsFirstMax ==
    \A i \in 1..Len(guesses) :
        LET d == probabilities[i]
            g == guesses[i]
        IN /\ g \in TableKeys
           /\ \A w \in TableKeys :
                 /\ ~Gt(DictGet(d, w), DictGet(d, g))
                 /\ PosInTable(w) < PosInTable(g) => Gt(DictGet(d, g), DictGet(d, w))

C2_Witness ==
    /\ rpc = "returned"
    /\ \E i \in 1..Len(guesses) :
          /\ Len(models) >= 2
          /\ \A w \in TableKeys : DictGet(probabilities[i], w) = NegInf
          /\ guesses[i] = models[1].word
    /\ \E i \in 1..Len(guesses) :
          \E v, w \in TableKeys :
             /\ v # w
             /\ DictGet(probabilities[i], v) = DictGet(probabilities[i], w)
             /\ DictGet(probabilities[i], v) # NegInf
             /\ guesses[i] \in {v, w}

\* C7: recognize never raises, and returns one profile and one guess per item.
C7_NeverRaises ==
    /\ rpc # "ValueError"
    /\ rpc = "returned" => Len(probabilities) = numItems /\ Len(guesses) = numItems

SelectReturned == pc = "idle" /\ lastOp = "select" /\ outcome # "unset"
FitCalls == SelectSeq(calls, LAMBDA c : c.op = "fit")
FitsOf(n) == SelectSeq(calls, LAMBDA c : c.op = "fit" /\ c.n = n)
ScoresOf(n) == SelectSeq(calls, LAMBDA c : c.op = "score" /\ c.n = n)
AllOk(s) == \A k \in 1..Len(s) : s[k].ok
Candidates == MinNComponents..max_n_components
Full == [i \in 1..Len(sequences) |-> i]

\* C3: when every fit of a select() call failed, select() returned None and did
\* not raise, whatever the strategy.
C3_MonotonicFallback ==
    (SelectReturned /\ \A k \in 1..Len(FitCalls) : ~FitCalls[k].ok)
        => outcome = "returned" /\ result = None

\* candidates of a SelectorBIC run whose fit and scoring both succeeded
BICSuccesses == { n \in Candidates : AllOk(FitsOf(n)) /\ Len(ScoresOf(n)) = 1 /\ AllOk(ScoresOf(n)) }
\* -2 * logL + p * ln(N), in thousandths, from the logL the trainer returned
BICOf(n) ==
    -2000 * ScoresOf(n)[1].val
    + (n * n + 2 * FeatureDim * n - 1) * LnTable[SumSeq(sequences)]

C9_BICMinimum ==
    (SelectReturned /\ kind = "SelectorBIC" /\ BICSuccesses # {}) =>
        /\ result.n \in BICSuccesses
        /\ \A m \in BICSuccesses : BICOf(result.n) <= BICOf(m)

Folded == Len(sequences) >= FoldThreshold
ExpectedScores == IF Folded THEN NSplits ELSE 1
Succeeded(fits, scores) == AllOk(fits) /\ AllOk(scores) /\ Len(scores) = ExpectedScores
\* candidates of a SelectorCV run all of whose fits and scorings succeeded
CVSuccesses == { n \in Candidates : Succeeded(FitsOf(n), ScoresOf(n)) }
ScoreSum(n) == LET sc == ScoresOf(n) IN SumSeq([k \in 1..Len(sc) |-> sc[k].val])
\* mean(m) <= mean(n) for two successful candidates
MeanLeq(m, n) == ScoreSum(m) * Len(ScoresOf(n)) <= ScoreSum(n) * Len(ScoresOf(m))
Elems(s) == { s[j] : j \in 1..Len(s) }
HeldOut(n) ==
    LET fits == FitsOf(n)
        scores == ScoresOf(n)
    IN \A k \in 1..Len(scores) :
          IF Folded
          THEN /\ Elems(fits[k].X) \cap Elems(scores[k].X) = {}
               /\ Elems(fits[k].X) \cup Elems(scores[k].X) = 1..Len(sequences)
               /\ scores[k].X # << >>
          ELSE scores[k].X = Full /\ fits[k].X = Full

\* C5: SelectorCV.select returns the model of a successful candidate whose mean
\* of held-out fold scores (or single full-data score without folding) is the
\* maximum among the successes; the model is the one of its last fit.
C5_CVMaximumMean ==
    (SelectReturned /\ kind = "SelectorCV") =>
        LET succ == CVSuccesses
        IN succ # {} =>
              /\ result.n \in succ
              /\ \A m \in succ : MeanLeq(m, result.n) /\ HeldOut(m)
              /\ LET fits == FitsOf(result.n) IN result = [n |-> result.n, X |-> fits[Len(fits)].X]

C5_Witness ==
    /\ SelectReturned
    /\ kind = "SelectorCV"
    /\ Folded
    /\ Cardinality(CVSuccesses) >= 2
    /\ \E m \in CVSuccesses : ~MeanLeq(result.n, m) /\ m > result.n
    /\ ScoreSum(result.n) % NSplits # 0

\* fold k raised (in fit, or in scoring), given a candidate's fits and scorings
FoldFailed(fits, scores, k) == ~fits[k].ok \/ (Len(scores) >= k /\ ~scores[k].ok)

\* C6: without folding (fewer than 3 sequences) the trainer is invoked exactly
\* once per candidate n, on the full data; with folding it is invoked once per
\* fold split reached, in order, on that split's training sequences, and a
\* candidate none of whose folds fails is fitted once for every one of the splits.
C6_FoldSkipRule ==
    (SelectReturned /\ kind = "SelectorCV") =>
        /\ \A k \in 1..Len(calls) : calls[k].n \in Candidates
        /\ \A n \in Candidates :
              LET fits == FitsOf(n)
                  scores == ScoresOf(n)
              IN IF Len(sequences) < FoldThreshold
                 THEN Len(fits) = 1 /\ fits[1].X = Full
                 ELSE /\ Len(fits) \in 1..NSplits
                      /\ \A k \in 1..Len(fits) :
                            /\ fits[k].X = SortedSeq((1..Len(sequences)) \ TestSet(shuffle, k))
                            /\ fits[k].X # Full
                            /\ k < Len(fits) => ~FoldFailed(fits, scores, k)
                      /\ Len(fits) < NSplits => FoldFailed(fits, scores, Len(fits))

C6_Witness ==
    /\ SelectReturned
    /\ kind = "SelectorCV"
    /\ Len(sequences) = 2
    /\ Cardinality(Candidates) >= 2
    /\ Len(FitCalls) = Cardinality(Candidates)
    /\ \E k \in 1..Len(FitCalls) : ~FitCalls[k].ok

\* C8: between operations the selector's X / lengths are the word's full data,
\* so a base_model call from outside fits on the full data.
C8_FullDataKept ==
    /\ pc = "idle" => X = Full /\ lengths = sequences
    /\ (pc = "idle" /\ lastOp = "base_model") => \A k \in 1..Len(calls) : calls[k].X = Full

Failed(fits, scores) == \E k \in 1..Len(fits) : FoldFailed(fits, scores, k)
CVFailures == { n \in Candidates : Failed(FitsOf(n), ScoresOf(n)) }

\* C10: with folding, a candidate one of whose folds failed has no recorded
\* score, is not evaluated past the failing fold and is never returned; every
\* candidate is still tried, select() does not raise, and it returns None
\* exactly when every candidate failed.
C10_FoldFailureSkipsCandidate ==
    (kind = "SelectorCV" /\ Folded /\ lastOp = "select") =>
        LET fail == CVFailures
        IN /\ \A i \in 1..Len(n_state_scores) : n_state_scores[i].model.n \notin fail
           /\ \A n \in fail :
                 LET fits == FitsOf(n)
                     scores == ScoresOf(n)
                 IN /\ FoldFailed(fits, scores, Len(fits))
                    /\ \A k \in 1..(Len(fits) - 1) : ~FoldFailed(fits, scores, k)
                    /\ Len(scores) <= Len(fits)
           /\ pc = "idle" =>
                 /\ outcome = "returned"
                 /\ \A n \in Candidates : Len(FitsOf(n)) >= 1
                 /\ result.n \notin fail
                 /\ result = None <=> fail = Candidates

C10_Witness ==
    /\ SelectReturned
    /\ kind = "SelectorCV"
    /\ Folded
    /\ result # None
    /\ \E n \in CVFailures : Len(ScoresOf(n)) >= 2 /\ AllOk(ScoresOf(n)) /\ n < result.n

====
